---- MODULE Spec2Model ----
(***************************************************************************)
(* Model of mass_convert_modern_dsl.py: the batch converter that scans     *)
(* examples/ for legacy .lua files, backs each one up and overwrites it    *)
(* with a rendered Modern DSL template.                                    *)
(*                                                                         *)
(* Text (file content, paths, descriptions) is a sequence of lexemes: one  *)
(* lexeme per marker the program searches for ("TaskDefinition", "task(",  *)
(* "description", "=", the two quote characters, white space, the path     *)
(* category words) and one lexeme per stretch of other text.  The Python   *)
(* test  s in text  for a marker s is membership of the marker's lexeme.   *)
(*                                                                         *)
(* The failures modelled are those of file operations (open, read, copy,   *)
(* write), which raise OSError or UnicodeError and are caught by the        *)
(* program's  except Exception  clauses.  Each .lua path names its own     *)
(* file: no two paths of the tree are links to one file.                   *)
(***************************************************************************)
EXTENDS Integers, Sequences, FiniteSets, TLC

VARIABLES
    fs,                \* the filesystem under examples/: path -> file
    pc,                \* position of the program: idle, scan, loop, read,
                       \* check, backup, write, done
    scan,              \* position of the rglob iteration of main()
    lua_files,         \* main(): the list of detected candidates
    idx,               \* main(): position of  for file_path in lua_files
    converted,         \* main(): local counter
    failed,            \* main(): local counter
    original_content,  \* convert_file_to_modern_dsl(): local
    out,               \* console output of this run, one record per print
    io,                \* file writes this run has attempted, in order
    run,               \* number of the invocation of the script
    pre,               \* the filesystem as this run found it
    last,              \* what the previous run left: its fs, out and io
    rpath,             \* renderer harness: original_file_path
    rtext,             \* renderer harness: original_content
    rendered           \* renderer harness: result of the call, once made

vars == <<fs, pc, scan, lua_files, idx, converted, failed, original_content,
          out, io, run, pre, last, rpath, rtext, rendered>>

renderVars == <<rpath, rtext, rendered>>

-----------------------------------------------------------------------------
(* Bounds *)

NumFiles == 2        \* .lua files in the scanned tree
MaxRuns == 2         \* successive invocations of the script
MaxTextLen == 5      \* lexemes of an original text given to the renderer
MaxDirs == 2         \* directory segments of a path given to the renderer

-----------------------------------------------------------------------------
(* Lexemes *)

DQ == "\""
SQ == "'"
WS == " "

Contains(text, lexeme) == \E i \in 1..Len(text) : text[i] = lexeme

RECURSIVE SeqsUpTo(_, _)
SeqsUpTo(S, n) ==
    IF n = 0 THEN {<<>>}
    ELSE LET shorter == SeqsUpTo(S, n - 1)
         IN  shorter \cup {Append(s, x) : s \in shorter, x \in S}

-----------------------------------------------------------------------------
(* pathlib *)

\* Index of the last "/" of path at or before index i, 0 when there is none.
RECURSIVE LastSlash(_, _)
LastSlash(path, i) ==
    IF i = 0 \/ path[i] = "/" THEN i ELSE LastSlash(path, i - 1)

\* Path(p).name: the final component.
PathName(path) == SubSeq(path, LastSlash(path, Len(path)) + 1, Len(path))

IsSuffixLexeme(x) == x \in {".lua", ".backup", ".txt"}

\* Path(p).stem: the final component without its last suffix.
PathStem(path) ==
    LET name == PathName(path)
    IN  IF Len(name) > 1 /\ IsSuffixLexeme(name[Len(name)])
        THEN SubSeq(name, 1, Len(name) - 1)
        ELSE name

\* rglob("*.lua"): the final component ends in .lua
MatchesLua(path) == Len(path) > 0 /\ path[Len(path)] = ".lua"

-----------------------------------------------------------------------------
(* create_modern_dsl_template *)

IsQuote(x) == x = DQ \/ x = SQ

AllWs(text, a, b) == \A k \in a..b : text[k] = WS
NoQuote(text, a, b) == \A k \in a..b : ~IsQuote(text[k])

\* description\s*=\s*["']  matches from index i and ends in the quote at q.
OpensAt(text, i, q) ==
    /\ IsQuote(text[q])
    /\ \E e \in (i + 1)..(q - 1) :
          text[e] = "=" /\ AllWs(text, i + 1, e - 1) /\ AllWs(text, e + 1, q - 1)

\* ([^"']+)["']  matches after the quote at q and ends in the quote at c:
\* the group is greedy and a quote must follow it, so it runs to the first
\* quote after q, and it must not be empty.
ClosesAt(text, q, c) ==
    /\ c > q + 1
    /\ IsQuote(text[c])
    /\ NoQuote(text, q + 1, c - 1)

\* <<i, q>>: the pattern's head matches from i to the opening quote at q.
Openings(text) ==
    {o \in {i \in 1..Len(text) : text[i] = "description"} \X (1..Len(text)) :
        OpensAt(text, o[1], o[2])}

\* <<i, q, c>>: the whole pattern matches at i, its quotes at q and c.
Matches(text) ==
    UNION {{<<o[1], o[2], c>> :
              c \in {d \in (o[2] + 2)..Len(text) : ClosesAt(text, o[2], d)}} :
           o \in Openings(text)}

\* re.search(...).group(1): the group of the leftmost match.
Group1(text) ==
    SubSeq(text,
           (CHOOSE m \in Matches(text) : \A n \in Matches(text) : m[1] <= n[1])[2] + 1,
           (CHOOSE m \in Matches(text) : \A n \in Matches(text) : m[1] <= n[1])[3] - 1)

\* description_match.group(1) if description_match else f"Modern DSL ..."
Description(file_name, text) ==
    IF Matches(text) = {} THEN <<"Modern DSL version of ">> \o file_name
    ELSE Group1(text)

\* Faulty variant: the intermediate test placed before the beginner test.
SwappedClassify(path) ==
    IF Contains(path, "intermediate") THEN <<"intermediate", "moderate">>
    ELSE IF Contains(path, "beginner") THEN <<"beginner", "simple">>
    ELSE IF Contains(path, "advanced") THEN <<"advanced", "complex">>
    ELSE <<"general", "basic">>

\* The if/elif chain on the path: <<category, complexity>>.
Classify(path) ==
    IF Contains(path, "beginner") THEN <<"beginner", "simple">>
    ELSE IF Contains(path, "intermediate") THEN <<"intermediate", "moderate">>
    ELSE IF Contains(path, "advanced") THEN <<"advanced", "complex">>
    ELSE <<"general", "basic">>

\* The f-string: one line of it per line here, for the lines that carry a
\* placeholder, a quote or a marker; the stretches between are one lexeme.
Template(file_name, description, category, complexity, name) ==
       <<"-- MODERN DSL ONLY - ">> \o description
    \o <<"-- Converted from legacy ", "TaskDefinition", " format">>
    \o <<"-- Category: ", category, ", Complexity: ", complexity>>
    \o <<"local main_task = ", "task(", DQ>> \o file_name \o <<"_task", DQ, ")">>
    \o <<":", "description", "(", DQ>> \o description \o <<DQ, ")">>
    \o <<"log.info(", DQ, "Executing ">> \o file_name \o <<" with Modern DSL...", DQ, ")">>
    \o <<"return true, ", DQ, "Task completed successfully", DQ>>
    \o <<"task_name = ", DQ>> \o file_name \o <<DQ>>
    \o <<"status = ", DQ, "success", DQ>>
    \o <<":timeout(", DQ, "5m", DQ, ")", ":retries(2, ", DQ, "exponential", DQ, ")">>
    \o <<"log.info(", DQ>> \o file_name \o <<" task completed successfully", DQ, ")">>
    \o <<"log.error(", DQ>> \o file_name \o <<" task failed: ", DQ, " .. error)">>
    \o <<":build()">>
    \o <<"-- local secondary_task = ", "task(", DQ>> \o file_name \o <<"_secondary", DQ, ")">>
    \o <<"-- ", ":", "description", "(", DQ, "Secondary task for ">> \o file_name \o <<DQ, ")">>
    \o <<"-- :depends_on({", DQ>> \o file_name \o <<"_task", DQ, "})">>
    \o <<"-- return true, ", DQ, "Secondary task completed", DQ, ", {}">>
    \o <<"workflow.define(", DQ>> \o file_name \o <<"_workflow", DQ, ", {">>
    \o <<"description", WS, "=", WS, DQ>> \o description \o <<" - Modern DSL", DQ, ",">>
    \o <<"version = ", DQ, "2.0.0", DQ, ",">>
    \o <<"author = ", DQ, "Sloth Runner Team", DQ, ",">>
    \o <<"category", WS, "=", WS, DQ, category, DQ, ",">>
    \o <<"complexity", WS, "=", WS, DQ, complexity, DQ, ",">>
    \o <<"tags = {", DQ>> \o file_name
    \o <<DQ, ", ", DQ, "modern-dsl", DQ, ", ", DQ, category, DQ, "},">>
    \o <<"migrated_from = ", DQ, "TaskDefinition", " format", DQ>>
    \o <<"timeout = ", DQ, "15m", DQ, ",", "retry_policy = ", DQ, "exponential", DQ, ",">>
    \o <<"log.info(", DQ, "Starting ">> \o file_name \o <<" workflow...", DQ, ")">>
    \o <<"log.info(", DQ>> \o file_name \o <<" workflow completed successfully!", DQ, ")">>
    \o <<"log.error(", DQ>> \o file_name \o <<" workflow failed!", DQ, ")">>
    \o <<"-- This file has been converted from legacy ", "TaskDefinition",
         " format to Modern DSL">>
    \o <<"-- Original backup saved as ">> \o name \o <<".backup">>

create_modern_dsl_template(original_file_path, original_text) ==
    LET file_name == PathStem(original_file_path)
        description == Description(file_name, original_text)
        cc == Classify(original_file_path)
    IN  Template(file_name, description, cc[1], cc[2],
                 PathName(original_file_path))

-----------------------------------------------------------------------------
(* The filesystem *)

File(data) == [exists |-> TRUE, data |-> data]
Absent == [exists |-> FALSE, data |-> <<>>]

\* f"{file_path}.backup"
BackupPath(file_path) == file_path \o <<".backup">>

\* The .lua files of the tree, in the order rglob yields them.
DirFiles ==
    << <<"examples", "/", "beginner", "/", "hello", ".lua">>,
       <<"examples", "/", "advanced", "/", "deploy", ".lua">>,
       <<"examples", "/", "build", ".lua">>,
       <<"examples", "/", "intermediate", "/", "test", ".lua">> >>

LuaPaths == {DirFiles[i] : i \in 1..NumFiles}
FsPaths == LuaPaths \cup {BackupPath(p) : p \in LuaPaths}

\* Every path of the tree in directory order: each file, then its backup.
DirOrder ==
    [k \in 1..(2 * NumFiles) |->
        IF k % 2 = 1 THEN DirFiles[(k + 1) \div 2]
        ELSE BackupPath(DirFiles[k \div 2])]

\* examples_dir.rglob("*.lua")
Rglob(fsys) ==
    SelectSeq(DirOrder, LAMBDA p : fsys[p].exists /\ MatchesLua(p))

\* Texts a .lua file of the tree may hold before the first run.
LegacyText ==
    <<"TaskDefinition", " { ", "description", WS, "=", WS, DQ, "Deploy", DQ, " }">>
SnakeText == <<"local ", "task_definition", " = {}">>
ModernSnakeText ==
    <<"local t = ", "task(", DQ, "t", DQ, ")", " -- was ", "task_definition">>
ModernText == <<"local t = ", "task(", DQ, "t", DQ, ")">>
MixedText == <<"TaskDefinition", " {} ", "task(", DQ, "t", DQ, ")">>

InitTexts == {LegacyText, SnakeText, ModernSnakeText, ModernText, MixedText}

\* A backup a previous conversion may have left behind.
OldBackupText == <<"TaskDefinition", " { old } ">>

\* What a write that failed part-way can leave of the text it was writing:
\* nothing, or the text up to its first marker.
RECURSIVE FirstMarker(_, _)
FirstMarker(text, i) ==
    IF i > Len(text) THEN 0
    ELSE IF text[i] \in {"TaskDefinition", "task_definition", "task("} THEN i
    ELSE FirstMarker(text, i + 1)

Truncations(text) == {<<>>, SubSeq(text, 1, FirstMarker(text, 1))}

\* Faulty variant: the backup is taken of the rendered text.
WrongSourceCopy2(fsys, src, dst) ==
    [fsys EXCEPT ![dst] = File(create_modern_dsl_template(src, fsys[src].data))]

\* shutil.copy2(src, dst), succeeding.
copy2(fsys, src, dst) == [fsys EXCEPT ![dst] = fsys[src]]

\* shutil.copy2(src, dst), raising: dst is untouched (an open failed), holds
\* part of src (the copy broke off) or all of it (copystat failed).
copy2_failing(fsys, src, dst) ==
    {fsys} \cup
    {[fsys EXCEPT ![dst] = File(t)] :
        t \in Truncations(fsys[src].data) \cup {fsys[src].data}}

\* open(path, 'w') and f.write(text), succeeding.
write_text(fsys, path, text) == [fsys EXCEPT ![path] = File(text)]

\* The same, raising: the file is untouched (open failed) or truncated
\* with part of the text in it.
write_text_failing(fsys, path, text) ==
    {fsys} \cup {[fsys EXCEPT ![path] = File(t)] : t \in Truncations(text) \ {text}}

-----------------------------------------------------------------------------
(* main() and convert_file_to_modern_dsl() *)

\* A local name that is not bound yet.
Unbound == -1

Msg(kind, path, info) == [kind |-> kind, path |-> path, info |-> info]
\* One attempted file write: the operation, its target, whether it succeeded.
Op(op, path, ok) == [op |-> op, path |-> path, ok |-> ok]

\* Faulty variant: the detector flags every .lua file.
FlagEverything(text) == TRUE

\* The detector's test in main().
IsLegacy(text) ==
    Contains(text, "TaskDefinition") \/ Contains(text, "task_definition")

\* Faulty variant: the test without its  'TaskDefinition' not in  half.
TaskCallOnly(text) == Contains(text, "task(")

\* The "already modern" test in convert_file_to_modern_dsl().
AlreadyModern(text) ==
    Contains(text, "task(") /\ ~Contains(text, "TaskDefinition")

file_path == lua_files[idx]

Init ==
    /\ fs \in [FsPaths -> {File(t) : t \in InitTexts}
                          \cup {Absent, File(OldBackupText)}]
    /\ \A p \in LuaPaths : fs[p] \in {File(t) : t \in InitTexts}
    /\ \E b \in {Absent, File(OldBackupText)} :
          \A p \in LuaPaths : fs[BackupPath(p)] = b
    /\ pc = "idle"
    /\ scan = 1
    /\ lua_files = <<>>
    /\ idx = 1
    /\ converted = Unbound
    /\ failed = Unbound
    /\ original_content = <<>>
    /\ out = <<>>
    /\ io = <<>>
    /\ run = 1
    /\ pre = fs
    /\ last = [ran |-> FALSE, fs |-> fs, out |-> <<>>, io |-> <<>>]
    /\ rpath = <<>>
    /\ rtext = <<>>
    /\ rendered = <<>>

\* main(): the banner and the empty list.
Start ==
    /\ pc = "idle"
    /\ out' = Append(out, Msg("start", <<>>, 0))
    /\ lua_files' = <<>>
    /\ scan' = 1
    /\ pc' = "scan"
    /\ UNCHANGED <<fs, idx, converted, failed, original_content, io, run,
                   pre, last, renderVars>>

\* One iteration of the rglob loop whose read succeeds.
ScanFile ==
    /\ pc = "scan"
    /\ scan <= Len(Rglob(fs))
    /\ LET lua_file == Rglob(fs)[scan]
           content == fs[lua_file].data
       IN  lua_files' = IF IsLegacy(content)
                        THEN Append(lua_files, lua_file)
                        ELSE lua_files
    /\ scan' = scan + 1
    /\ UNCHANGED <<fs, pc, idx, converted, failed, original_content, out, io,
                   run, pre, last, renderVars>>

\* One iteration of the rglob loop whose open or read raises.
ScanUnreadable ==
    /\ pc = "scan"
    /\ scan <= Len(Rglob(fs))
    /\ out' = Append(out, Msg("warning", Rglob(fs)[scan], "read"))
    /\ scan' = scan + 1
    /\ UNCHANGED <<fs, pc, lua_files, idx, converted, failed,
                   original_content, io, run, pre, last, renderVars>>

\* After the scan, with no candidate: the early return.
NoFiles ==
    /\ pc = "scan"
    /\ scan > Len(Rglob(fs))
    /\ lua_files = <<>>
    /\ out' = out \o <<Msg("found", <<>>, Len(lua_files)),
                       Msg("no_files", <<>>, 0)>>
    /\ pc' = "done"
    /\ UNCHANGED <<fs, scan, lua_files, idx, converted, failed,
                   original_content, io, run, pre, last, renderVars>>

\* After the scan, with candidates: the counters are set up.
BeginLoop ==
    /\ pc = "scan"
    /\ scan > Len(Rglob(fs))
    /\ lua_files # <<>>
    /\ out' = Append(out, Msg("found", <<>>, Len(lua_files)))
    /\ converted' = 0
    /\ failed' = 0
    /\ idx' = 1
    /\ pc' = "loop"
    /\ UNCHANGED <<fs, scan, lua_files, original_content, io, run, pre, last,
                   renderVars>>

\* for file_path in lua_files: the call of convert_file_to_modern_dsl.
Call ==
    /\ pc = "loop"
    /\ idx <= Len(lua_files)
    /\ pc' = "read"
    /\ UNCHANGED <<fs, scan, lua_files, idx, converted, failed,
                   original_content, out, io, run, pre, last, renderVars>>

\* Faulty variant: a success that main() does not count.
UncountedReturnTrue(msg) ==
    /\ out' = Append(out, msg)
    /\ idx' = idx + 1
    /\ pc' = "loop"
    /\ original_content' = <<>>
    /\ UNCHANGED <<converted, failed>>

\* return True, and main()'s  converted += 1.
ReturnTrue(msg) ==
    /\ out' = Append(out, msg)
    /\ converted' = converted + 1
    /\ idx' = idx + 1
    /\ pc' = "loop"
    /\ original_content' = <<>>
    /\ UNCHANGED failed

\* Faulty variant: the exception is reported and raised again, ending main().
RaiseToMain(e) ==
    /\ out' = Append(out, Msg("error", file_path, e))
    /\ pc' = "crashed"
    /\ original_content' = <<>>
    /\ UNCHANGED <<converted, failed, idx>>

\* except Exception: the error line, return False, and  failed += 1.
ReturnFalse(e) ==
    /\ out' = Append(out, Msg("error", file_path, e))
    /\ failed' = failed + 1
    /\ idx' = idx + 1
    /\ pc' = "loop"
    /\ original_content' = <<>>
    /\ UNCHANGED converted

\* with open(file_path, 'r') ...: original_content = f.read()
ConvRead ==
    /\ pc = "read"
    /\ original_content' = fs[file_path].data
    /\ pc' = "check"
    /\ UNCHANGED <<fs, scan, lua_files, idx, converted, failed, out, io, run,
                   pre, last, renderVars>>

\* The open or the read raises.
ConvReadFail ==
    /\ pc = "read"
    /\ ReturnFalse("read")
    /\ UNCHANGED <<fs, scan, lua_files, io, run, pre, last, renderVars>>

\* The "already modern" branch.
ConvSkip ==
    /\ pc = "check"
    /\ AlreadyModern(original_content)
    /\ ReturnTrue(Msg("already_modern", file_path, 0))
    /\ UNCHANGED <<fs, scan, lua_files, io, run, pre, last, renderVars>>

ConvNotModern ==
    /\ pc = "check"
    /\ ~AlreadyModern(original_content)
    /\ pc' = "backup"
    /\ UNCHANGED <<fs, scan, lua_files, idx, converted, failed,
                   original_content, out, io, run, pre, last, renderVars>>

\* shutil.copy2(file_path, backup_path)
ConvBackup ==
    /\ pc = "backup"
    /\ fs' = copy2(fs, file_path, BackupPath(file_path))
    /\ io' = Append(io, Op("copy", BackupPath(file_path), TRUE))
    /\ pc' = "write"
    /\ UNCHANGED <<scan, lua_files, idx, converted, failed, original_content,
                   out, run, pre, last, renderVars>>

\* Faulty variant: a failed copy is reported and the conversion goes on.
SwallowedBackupFail ==
    /\ pc = "backup"
    /\ fs' \in copy2_failing(fs, file_path, BackupPath(file_path))
    /\ io' = Append(io, Op("copy", BackupPath(file_path), FALSE))
    /\ out' = Append(out, Msg("error", file_path, "backup"))
    /\ pc' = "write"
    /\ UNCHANGED <<scan, lua_files, idx, converted, failed, original_content,
                   run, pre, last, renderVars>>

\* shutil.copy2 raises.
ConvBackupFail ==
    /\ pc = "backup"
    /\ fs' \in copy2_failing(fs, file_path, BackupPath(file_path))
    /\ io' = Append(io, Op("copy", BackupPath(file_path), FALSE))
    /\ ReturnFalse("backup")
    /\ UNCHANGED <<scan, lua_files, run, pre, last, renderVars>>

\* The render, the overwrite of the original, and return True.
ConvWrite ==
    /\ pc = "write"
    /\ LET modern_content ==
               create_modern_dsl_template(file_path, original_content)
       IN  fs' = write_text(fs, file_path, modern_content)
    /\ io' = Append(io, Op("write", file_path, TRUE))
    /\ ReturnTrue(Msg("converted", file_path, 0))
    /\ UNCHANGED <<scan, lua_files, run, pre, last, renderVars>>

\* Faulty variant: a failed overwrite removes the backup.
CleanupWriteFail ==
    /\ pc = "write"
    /\ fs' = [fs EXCEPT ![BackupPath(file_path)] = Absent]
    /\ io' = Append(io, Op("write", file_path, FALSE))
    /\ ReturnFalse("write")
    /\ UNCHANGED <<scan, lua_files, run, pre, last, renderVars>>

\* The overwrite of the original raises.
ConvWriteFail ==
    /\ pc = "write"
    /\ LET modern_content ==
               create_modern_dsl_template(file_path, original_content)
       IN  fs' \in write_text_failing(fs, file_path, modern_content)
    /\ io' = Append(io, Op("write", file_path, FALSE))
    /\ ReturnFalse("write")
    /\ UNCHANGED <<scan, lua_files, run, pre, last, renderVars>>

\* The loop is over: the summary.
Summary ==
    /\ pc = "loop"
    /\ idx > Len(lua_files)
    /\ out' = Append(out, Msg("summary", <<>>,
                              <<converted, failed, Len(lua_files)>>))
    /\ pc' = "done"
    /\ UNCHANGED <<fs, scan, lua_files, idx, converted, failed,
                   original_content, io, run, pre, last, renderVars>>

\* The script is run again on the same tree: a new process.
Rerun ==
    /\ pc = "done"
    /\ run < MaxRuns
    /\ run' = run + 1
    /\ last' = [ran |-> TRUE, fs |-> fs, out |-> out, io |-> io]
    /\ pre' = fs
    /\ pc' = "idle"
    /\ scan' = 1
    /\ lua_files' = <<>>
    /\ idx' = 1
    /\ converted' = Unbound
    /\ failed' = Unbound
    /\ original_content' = <<>>
    /\ out' = <<>>
    /\ io' = <<>>
    /\ UNCHANGED <<fs, renderVars>>

\* The steps of one run in which no file operation fails.
CleanStep ==
    \/ Start
    \/ ScanFile
    \/ NoFiles
    \/ BeginLoop
    \/ Call
    \/ ConvRead
    \/ ConvSkip
    \/ ConvNotModern
    \/ ConvBackup
    \/ ConvWrite
    \/ Summary

\* The steps in which a file operation raises.
FailStep ==
    \/ ScanUnreadable
    \/ ConvReadFail
    \/ ConvBackupFail
    \/ ConvWriteFail

\* One run of the script, file operations failing at will.
Next == CleanStep \/ FailStep

Spec == Init /\ [][Next]_vars

\* The interpreter runs the program on: no step of main() waits for anything.
FairSpec == Spec /\ WF_vars(Next)

\* Successive runs of the script on the same tree, no file operation failing.
NextTwice == CleanStep \/ Rerun

SpecTwice == Init /\ [][NextTwice]_vars

-----------------------------------------------------------------------------
(* The renderer on its own: create_modern_dsl_template applied to one      *)
(* (path, text) pair drawn from bounded sets.                              *)

DirWords == {"beginner", "intermediate", "advanced", "misc"}
StemWords == {"hello", "beginner", "advanced"}

RECURSIVE JoinDirs(_)
JoinDirs(dirs) ==
    IF dirs = <<>> THEN <<>>
    ELSE <<"/", Head(dirs)>> \o JoinDirs(Tail(dirs))

RenderPaths ==
    {<<"examples">> \o JoinDirs(dirs) \o <<"/", stem, ".lua">> :
        dirs \in SeqsUpTo(DirWords, MaxDirs), stem \in StemWords}

TextLexemes == {"description", "=", DQ, SQ, WS, "it"}

ApostropheText ==
    <<"TaskDefinition", " { ", "description", WS, "=", WS,
      DQ, "Don", SQ, "t panic", DQ, " }">>

SamplePaths ==
    { <<"examples", "/", "beginner", "/", "hello", ".lua">>,
      <<"examples", "/", "build", ".lua">> }

SampleTexts == {LegacyText, SnakeText, ApostropheText}

RenderTexts == SeqsUpTo(TextLexemes, MaxTextLen)

InitRender ==
    /\ \/ rpath \in RenderPaths /\ rtext \in SampleTexts
       \/ rpath \in SamplePaths /\ rtext \in RenderTexts
    /\ rendered = <<>>
    /\ pc = "render"
    /\ fs = [p \in FsPaths |-> Absent]
    /\ scan = 1
    /\ lua_files = <<>>
    /\ idx = 1
    /\ converted = Unbound
    /\ failed = Unbound
    /\ original_content = <<>>
    /\ out = <<>>
    /\ io = <<>>
    /\ run = 1
    /\ pre = fs
    /\ last = [ran |-> FALSE, fs |-> fs, out |-> <<>>, io |-> <<>>]

Render ==
    /\ pc = "render"
    /\ rendered' = create_modern_dsl_template(rpath, rtext)
    /\ pc' = "rendered"
    /\ UNCHANGED <<fs, scan, lua_files, idx, converted, failed,
                   original_content, out, io, run, pre, last, rpath, rtext>>

SpecRender == InitRender /\ [][Render]_vars

-----------------------------------------------------------------------------
(* Reading a rendered file back *)

\* Index of the first occurrence of the lexemes  pat  in text, 0 if none.
Find(text, pat) ==
    LET hits == {i \in 1..(Len(text) - Len(pat) + 1) :
                    SubSeq(text, i, i + Len(pat) - 1) = pat}
    IN  IF hits = {} THEN 0 ELSE CHOOSE i \in hits : \A j \in hits : i <= j

\* The lexemes of text between the first occurrence of  open  and the next
\* occurrence of  close  after it.
Between(text, open, close) ==
    LET b == Find(text, open) + Len(open)
        rest == SubSeq(text, b, Len(text))
    IN  SubSeq(rest, 1, Find(rest, close) - 1)

\* The argument of the task's  :description("...")
DescriptionField(text) ==
    Between(text, <<":", "description", "(", DQ>>, <<DQ, ")">>)

\* -- Category: {category}, Complexity: {complexity}
HeaderPair(text) ==
    LET i == Find(text, <<"-- Category: ">>)
    IN  <<text[i + 1], text[i + 3]>>

\* metadata: category = "{category}", complexity = "{complexity}"
MetadataPair(text) ==
    LET i == Find(text, <<"category", WS, "=", WS, DQ>>)
        j == Find(text, <<"complexity", WS, "=", WS, DQ>>)
    IN  <<text[i + 5], text[j + 5]>>

-----------------------------------------------------------------------------
(* C6 *)

ClassificationTable ==
    { <<"beginner", "simple">>, <<"intermediate", "moderate">>,
      <<"advanced", "complex">>, <<"general", "basic">> }

\* C6: the (category, complexity) pair embedded in the rendered output is
\* one row of the fixed table, chosen by priority: beginner if the path
\* contains 'beginner', else intermediate if it contains 'intermediate',
\* else advanced if it contains 'advanced', else general - wherever in the
\* path the words occur.
C6_ClassificationByPriority ==
    pc = "rendered" =>
        LET pair == HeaderPair(rendered)
            b == Contains(rpath, "beginner")
            i == Contains(rpath, "intermediate")
            a == Contains(rpath, "advanced")
        IN  /\ pair \in ClassificationTable
            /\ MetadataPair(rendered) = pair
            /\ (pair[1] = "beginner") <=> b
            /\ (pair[1] = "intermediate") <=> (~b /\ i)
            /\ (pair[1] = "advanced") <=> (~b /\ ~i /\ a)
            /\ (pair[1] = "general") <=> (~b /\ ~i /\ ~a)

\* A path whose first directory is advanced and whose file name holds
\* beginner has been rendered as beginner/simple.
C6_Witness ==
    /\ pc = "rendered"
    /\ Len(rpath) >= 5
    /\ rpath[3] = "advanced"
    /\ rpath[Len(rpath) - 1] = "beginner"
    /\ HeaderPair(rendered) = <<"beginner", "simple">>

-----------------------------------------------------------------------------
(* C7 *)

\* text holds an assignment  description = "X"  with the word at index i,
\* its opening double quote at q and its closing one at c: X is what
\* stands between the two.
AssignmentAt(text, i, q, c) ==
    /\ text[i] = "description"
    /\ \E e \in (i + 1)..(q - 1) :
          /\ \A k \in ((i + 1)..(e - 1)) \cup ((e + 1)..(q - 1)) : text[k] = WS
          /\ text[e] = "="
    /\ q < c
    /\ text[q] = DQ
    /\ text[c] = DQ
    /\ \A k \in (q + 1)..(c - 1) : text[k] # DQ

\* C7: when the original text contains an assignment  description = "X",
\* the description field of the rendered output is X verbatim; when it
\* contains none, the field is the default, which contains base_name.
C7_DescriptionVerbatim ==
    pc = "rendered" =>
        LET n == Len(rtext)
            assigned == {a \in (1..n) \X (1..n) \X (1..n) :
                            AssignmentAt(rtext, a[1], a[2], a[3])}
            field == DescriptionField(rendered)
        IN  /\ \A a \in assigned : field = SubSeq(rtext, a[2] + 1, a[3] - 1)
            /\ assigned = {} =>
                  field = <<"Modern DSL version of ">> \o PathStem(rpath)

-----------------------------------------------------------------------------
(* What a run has printed and done, read off its output and its writes *)

Printed(kind, path) ==
    \E k \in 1..Len(out) : out[k].kind = kind /\ out[k].path = path

\* The call for path raised in the operation e: its error line is out.
Raised(path, e) ==
    \E k \in 1..Len(out) :
        out[k].kind = "error" /\ out[k].path = path /\ out[k].info = e

\* The call for path returned True.
Succeeded(path) ==
    Printed("converted", path) \/ Printed("already_modern", path)

Attempted(op, path) ==
    \E k \in 1..Len(io) : io[k].op = op /\ io[k].path = path

PerFileLines ==
    SelectSeq(out, LAMBDA m :
        m.kind \in {"converted", "already_modern", "error"})

\* The paths convert_file_to_modern_dsl has returned for, in order.
Attempts == [k \in 1..Len(PerFileLines) |-> PerFileLines[k].path]

Count(kinds) == Cardinality({k \in 1..Len(out) : out[k].kind \in kinds})

\* The call for path has returned.
Returned(path) == \E k \in 1..Len(Attempts) : Attempts[k] = path

-----------------------------------------------------------------------------
(* C2 *)

\* C2: for a candidate whose text contains 'TaskDefinition', once its
\* conversion has returned success in this run, <path>.backup exists and
\* holds the bytes the original had when the run started.
C2_BackupHoldsOriginal ==
    \A p \in LuaPaths :
        (Contains(pre[p].data, "TaskDefinition") /\ Succeeded(p)) =>
            /\ fs[BackupPath(p)].exists
            /\ fs[BackupPath(p)].data = pre[p].data

\* A legacy file with a stale backup beside it has been converted: the file
\* now holds other text and the backup is no longer the stale one.
C2_Witness ==
    \E p \in LuaPaths :
        /\ Contains(pre[p].data, "TaskDefinition")
        /\ Printed("converted", p)
        /\ pre[BackupPath(p)] = File(OldBackupText)
        /\ fs[p] # pre[p]
        /\ pc = "done"

-----------------------------------------------------------------------------
(* C3 *)

\* C3: every write to an original path comes after a completed copy to its
\* .backup; and when the copy fails the original is as the run found it,
\* the file is counted as failed and not as converted, and no write to the
\* original is attempted in the run.
C3_BackupBeforeWrite ==
    \A p \in LuaPaths :
        /\ \A k \in 1..Len(io) :
              (io[k].op = "write" /\ io[k].path = p) =>
                  \E j \in 1..(k - 1) : io[j] = Op("copy", BackupPath(p), TRUE)
        /\ Raised(p, "backup") =>
              /\ fs[p] = pre[p]
              /\ ~Attempted("write", p)
              /\ ~Succeeded(p)
              /\ failed >= 1
              /\ failed = Count({"error"})

\* A backup copy broke off part-way, leaving a new .backup file; the run
\* is over and the original is untouched.
C3_Witness ==
    \E p \in LuaPaths :
        /\ Raised(p, "backup")
        /\ fs[BackupPath(p)] # pre[BackupPath(p)]
        /\ fs[BackupPath(p)] # pre[p]
        /\ pc = "done"

-----------------------------------------------------------------------------
(* C4 *)

\* C4: a candidate whose text, as the call read it, contains 'task(' and
\* not 'TaskDefinition' is left as it was, its .backup is neither created
\* nor modified, and the call returns success, which main() counts under
\* converted; for any other candidate the call goes on to the backup copy.
C4_SkipPolicy ==
    \A p \in LuaPaths :
        (Returned(p) /\ ~Raised(p, "read")) =>
            IF Contains(pre[p].data, "task(")
               /\ ~Contains(pre[p].data, "TaskDefinition")
            THEN /\ fs[p] = pre[p]
                 /\ fs[BackupPath(p)] = pre[BackupPath(p)]
                 /\ ~Attempted("copy", BackupPath(p))
                 /\ ~Attempted("write", p)
                 /\ Printed("already_modern", p)
                 /\ converted >= 1
                 /\ converted = Count({"converted", "already_modern"})
            ELSE /\ Attempted("copy", BackupPath(p))
                 /\ ~Printed("already_modern", p)

\* A candidate with 'task(' and without 'TaskDefinition' (flagged for its
\* 'task_definition') has been skipped, a stale backup beside it.
C4_Witness ==
    \E p \in LuaPaths :
        /\ Printed("already_modern", p)
        /\ pre[BackupPath(p)] = File(OldBackupText)
        /\ Contains(pre[p].data, "task_definition")
        /\ pc = "done"

-----------------------------------------------------------------------------
(* C5 *)

IsPrefix(s, t) == Len(s) <= Len(t) /\ SubSeq(t, 1, Len(s)) = s

\* C5: whatever reads, backups and writes fail, main() attempts every
\* detected candidate once, in list order, and the run reaches the end: a
\* failure on one candidate does not keep a later one from its conversion.
C5_BatchRunsToDone ==
    /\ [](/\ IsPrefix(Attempts, lua_files)
          /\ pc = "done" => Attempts = lua_files)
    /\ <>(pc = "done")

\* The first candidate's backup failed and the second was converted.
C5_Witness ==
    /\ pc = "done"
    /\ Len(lua_files) >= 2
    /\ Raised(lua_files[1], "backup")
    /\ Printed("converted", lua_files[2])
    /\ fs[lua_files[2]] # pre[lua_files[2]]

-----------------------------------------------------------------------------
(* C8 *)

NoLegacyFile ==
    \A p \in LuaPaths :
        ~(Contains(pre[p].data, "TaskDefinition")
          \/ Contains(pre[p].data, "task_definition"))

\* C8 as claimed: with no file containing 'TaskDefinition' or
\* 'task_definition', a run writes nothing, prints the 'no files need
\* conversion' message and a summary of zero converted and zero failed.
C8_SummaryOfZero ==
    (pc = "done" /\ NoLegacyFile) =>
        /\ fs = pre
        /\ io = <<>>
        /\ Printed("no_files", <<>>)
        /\ \E k \in 1..Len(out) :
              /\ out[k].kind = "summary"
              /\ out[k].info[1] = 0
              /\ out[k].info[2] = 0

\* C8 as amended: with no such file a run writes nothing at any point,
\* and ends having printed that it found 0 files and the 'no files need
\* conversion' message, without a conversion summary and without ever
\* creating the converted and failed counters.
C8_NoFilesShortCircuit ==
    NoLegacyFile =>
        /\ fs = pre
        /\ io = <<>>
        /\ converted = Unbound
        /\ failed = Unbound
        /\ pc = "done" =>
              /\ Len(out) >= 2
              /\ out[Len(out) - 1] = Msg("found", <<>>, 0)
              /\ out[Len(out)] = Msg("no_files", <<>>, 0)
              /\ Count({"summary", "converted", "already_modern", "error"}) = 0

\* A run over a tree of modern files only has ended with the message.
C8_Witness ==
    /\ pc = "done"
    /\ NoLegacyFile
    /\ \A p \in LuaPaths : Contains(pre[p].data, "task(")
    /\ Printed("no_files", <<>>)

-----------------------------------------------------------------------------
(* C9 *)

\* C9: when the overwrite of the original fails after the backup copy
\* succeeded, from then on to the end of the run <path>.backup exists with
\* the file's pre-conversion bytes, and the file is counted as failed and
\* not as converted.
C9_BackupSurvivesWriteError ==
    \A p \in LuaPaths :
        Raised(p, "write") =>
            /\ fs[BackupPath(p)].exists
            /\ fs[BackupPath(p)].data = pre[p].data
            /\ ~Succeeded(p)
            /\ failed >= 1
            /\ failed = Count({"error"})
            /\ pc = "done" =>
                  /\ out[Len(out)].kind = "summary"
                  /\ out[Len(out)].info[2] = failed

\* The first candidate's overwrite failed and truncated it; the run went on
\* to convert the second candidate and has ended.
C9_Witness ==
    /\ pc = "done"
    /\ Len(lua_files) >= 2
    /\ Raised(lua_files[1], "write")
    /\ fs[lua_files[1]] # pre[lua_files[1]]
    /\ Printed("converted", lua_files[2])

-----------------------------------------------------------------------------
(* C10 *)

\* C10: once main() has set up its counters, converted + failed is the
\* number of candidates processed, failed the number of conversions that
\* raised, converted the number rewritten plus the number skipped as
\* already modern; at the end the two add up to the number of candidates
\* and are what the summary reports; and neither counter ever decreases.
C10_Counters ==
    /\ [](converted # Unbound =>
            /\ failed # Unbound
            /\ converted + failed = Len(Attempts)
            /\ converted + failed = idx - 1
            /\ failed = Count({"error"})
            /\ converted = Count({"converted"}) + Count({"already_modern"})
            /\ pc = "done" =>
                  /\ converted + failed = Len(lua_files)
                  /\ out[Len(out)] =
                        Msg("summary", <<>>,
                            <<converted, failed, Len(lua_files)>>))
    /\ [](pc \in {"loop", "read", "check", "backup", "write"}
            => converted # Unbound)
    /\ [][converted' >= converted /\ failed' >= failed]_vars

\* A run has ended with one candidate skipped as already modern and the
\* other failed.
C10_Witness ==
    /\ pc = "done"
    /\ converted = 1
    /\ failed = 1
    /\ Count({"already_modern"}) = 1

-----------------------------------------------------------------------------
(* C1 *)

\* C1: when the script is run twice in succession with no I/O failure, the
\* second run converts nothing (it rewrites no original) and every .backup
\* the first run wrote holds after the second run what it held after the
\* first.
C1_SecondRunIdempotent ==
    (run >= 2 /\ pc = "done") =>
        /\ Count({"converted"}) = 0
        /\ ~\E k \in 1..Len(io) : io[k].op = "write"
        /\ \A k \in 1..Len(last.io) :
              last.io[k].op = "copy" =>
                  fs[last.io[k].path] = last.fs[last.io[k].path]

====
